---- MODULE Spec2Model ----
(***************************************************************************)
(* Model of the logfile pipeline of gnuplot_gui.py: the column name        *)
(* normalizer, the line classifier (LogfileParser.parse_lines), the full   *)
(* parse (LogfileParser.parse + GnuplotApp._execute_full_parse) and the     *)
(* incremental parse (GnuplotApp._execute_incremental_parse) of one tab.    *)
(*                                                                         *)
(* Representation.                                                         *)
(*  - A string is a sequence of one-character strings; the fixed suffixes   *)
(*    "_initial_residual", "Time" are kept as one element.                  *)
(*  - A log line is [kind, name, toks]: kind is the first pattern of        *)
(*    parse_lines that the line matches, name the captured raw label,       *)
(*    toks the captured numeric tokens.  A token is a natural number (the   *)
(*    float64 value float() returns, counted in units of the smallest       *)
(*    step the log prints) or Malformed (float() raises ValueError).        *)
(*  - A record (python dict) is a sequence of <<key, value>> pairs in       *)
(*    insertion order.  A DataFrame is [columns, rows]: rows are functions  *)
(*    from the columns that hold a value to that value; a column that is    *)
(*    not in the DOMAIN of a row is NaN in that row.                        *)
(*  - A byte offset counts whole lines (every line is one unit long).       *)
(***************************************************************************)
EXTENDS Integers, Sequences, FiniteSets, TLC

VARIABLES
    file,               \* the log file: the sequence of lines written so far
    exists,             \* os.path.exists(logfile_path)
    logfile_df,         \* tab_data['logfile_df']        (NoDf = None)
    parsed_byte_offset, \* tab_data['parsed_byte_offset']
    monitored_columns,  \* tab_data['monitored_columns'] ([fixed |-> FALSE] = None)
    temp_file_path,     \* tab_data['temp_file_path']    ("None" or "tmp")
    csv,                \* contents of the backing CSV    (NoDf = no file)
    merged,             \* the last merge of the tab: the columns it added and the Times of
                        \* the rows that were in the Table before it and stayed
    last,               \* the last step: which handler ran, what it returned, whether it read lines
    raw_name,           \* normalizer: the raw label typed so far, as a sequence of pieces
    clean_name,         \* normalizer: <<>> or <<result of _clean_column_name>>
    path,               \* widgets['logfile_path']: which of the two logs is selected
    other_file,         \* the lines of the log that is not selected
    other_exists,       \* os.path.exists of the log that is not selected
    stop_tailing,       \* tab_data['stop_tailing'].is_set()
    tail_thread,        \* tab_data['tail_thread']: index into workers, 0 = None
    workers,            \* every _tail_worker thread started so far
    enqueued,           \* the (worker, log, line) triples put on log_queue so far
    logfile_monitor_job,\* tab_data['logfile_monitor_job']  ("None" or "job")
    job_pending,        \* Tk still holds the timer of _wait_for_logfile_data
    last_mtime,         \* tab_data['last_mtime']
    stale_time,         \* tab_data['stale_time']
    quiet,              \* seconds of polling since the gate began or saw the file change
    gate_out,           \* what the last gate check did
    log_queue,          \* self.log_queue: the (key, line) items not yet consumed
    log_text,           \* the lines shown in the log view of the tab
    tab_open,           \* the key of the tab is in self.tabs
    auto_replotting,        \* self.auto_replotting
    active_auto_replot_job, \* self.active_auto_replot_job: "None", or the id of a timer
                            \* that is "pending" or has "fired"
    replot_timers,          \* the auto-replot timers Tk holds
    replot_out              \* what the last auto-replot handler did, in which mode, and
                            \* whether the button or a timer ran it

vars == <<file, exists, logfile_df, parsed_byte_offset, monitored_columns,
          temp_file_path, csv, merged, last, raw_name, clean_name,
          path, other_file, other_exists, stop_tailing, tail_thread, workers, enqueued,
          logfile_monitor_job, job_pending, last_mtime, stale_time, quiet, gate_out,
          log_queue, log_text, tab_open,
          auto_replotting, active_auto_replot_job, replot_timers, replot_out>>

tabVars == <<logfile_df, parsed_byte_offset, monitored_columns, temp_file_path,
             csv, merged>>
normVars == <<raw_name, clean_name>>
pathVars == <<path, other_file, other_exists>>
tailVars == <<stop_tailing, tail_thread, workers, enqueued>>
gateVars == <<logfile_monitor_job, job_pending, last_mtime, stale_time, quiet, gate_out>>
\* the tail reader and the readiness gate neither read nor write the parsing state
viewVars == <<log_queue, log_text, tab_open>>
replotVars == <<auto_replotting, active_auto_replot_job, replot_timers, replot_out>>
liveVars == <<pathVars, tailVars, gateVars, viewVars, replotVars>>

-----------------------------------------------------------------------------
(* Bounds of the model. *)

MaxFileLen == 5     \* lines the solver writes
MaxTime == 2        \* Time tokens are 0..MaxTime
MaxPieces == 7      \* pieces a raw label is made of
MaxWorkers == 2     \* tail worker threads started in a run
MaxLiveLen == 4     \* lines of a log that is tailed
MaxTimers == 2      \* auto-replot timers Tk is let hold at once

(* Program constants. *)

\* float() raised ValueError on this token
Malformed == -1
\* float32 represents every F32Step-th value of the modelled range
F32Step == 2
\* the gate of _parse_logfile: fewer than 3 time blocks means wait
MinTimeBlocks == 3
\* the gate re-checks every 2000 ms and counts 2 seconds per unchanged check
PollSeconds == 2
\* the gate gives up when stale_time reaches 20
StallSeconds == 20

-----------------------------------------------------------------------------
(* Generic helpers. *)

Range(s) == {s[i] : i \in 1..Len(s)}

Contains(s, x) == \E i \in 1..Len(s) : s[i] = x

RECURSIVE Flatten(_)
Flatten(ss) == IF ss = <<>> THEN <<>> ELSE Head(ss) \o Flatten(Tail(ss))

\* s followed by the elements of t that are not in s (first occurrence only)
RECURSIVE UnionSeq(_, _)
UnionSeq(s, t) ==
    IF t = <<>> THEN s
    ELSE IF Contains(s, Head(t)) THEN UnionSeq(s, Tail(t))
         ELSE UnionSeq(Append(s, Head(t)), Tail(t))

\* the elements of a finite set of integers in ascending order
RECURSIVE Ascending(_)
Ascending(S) ==
    IF S = {} THEN <<>>
    ELSE LET m == CHOOSE x \in S : \A y \in S : x <= y
         IN <<m>> \o Ascending(S \ {m})

-----------------------------------------------------------------------------
(* Column Name Normalizer: LogfileParser._clean_column_name. *)

\* the characters of the class [\s\(\),]
SepChars == {" ", "(", ")", ","}

\* re.sub(r'[\s\(\),]', '_', raw_name)
SubSeparators(s) == [i \in 1..Len(s) |-> IF s[i] \in SepChars THEN "_" ELSE s[i]]

IsOfAt(s, i) ==
    /\ i + 3 <= Len(s)
    /\ s[i] = "_" /\ s[i+1] = "o" /\ s[i+2] = "f" /\ s[i+3] = "_"

\* re.sub(r'_of_', '_', name): leftmost matches, scanning on after each match
RECURSIVE SubOfFrom(_, _)
SubOfFrom(s, i) ==
    IF i > Len(s) THEN <<>>
    ELSE IF IsOfAt(s, i) THEN <<"_">> \o SubOfFrom(s, i + 4)
         ELSE <<s[i]>> \o SubOfFrom(s, i + 1)

SubOf(s) == SubOfFrom(s, 1)

\* re.sub(r'__+', '_', name)
RECURSIVE CollapseFrom(_, _)
CollapseFrom(s, i) ==
    IF i > Len(s) THEN <<>>
    ELSE IF s[i] = "_" /\ i > 1 /\ s[i-1] = "_" THEN CollapseFrom(s, i + 1)
         ELSE <<s[i]>> \o CollapseFrom(s, i + 1)

Collapse(s) == CollapseFrom(s, 1)

\* name.strip('_')
RECURSIVE StripLeft(_)
StripLeft(s) == IF s # <<>> /\ Head(s) = "_" THEN StripLeft(Tail(s)) ELSE s

RECURSIVE StripRight(_)
StripRight(s) ==
    IF s # <<>> /\ s[Len(s)] = "_" THEN StripRight(SubSeq(s, 1, Len(s) - 1)) ELSE s

Strip(s) == StripRight(StripLeft(s))

_clean_column_name(raw) == Strip(Collapse(SubOf(SubSeparators(raw))))

-----------------------------------------------------------------------------
(* Log lines. *)

TimeLine(tok) == [kind |-> "time", name |-> <<>>, toks |-> <<tok>>]
SolverLine(var, tok) == [kind |-> "solver", name |-> var, toks |-> <<tok>>]
VectorLine(raw, toks) == [kind |-> "vector", name |-> raw, toks |-> toks]
ScalarLine(raw, tok) == [kind |-> "scalar", name |-> raw, toks |-> <<tok>>]
\* a line holding "time step continuity errors"
NoiseLine == [kind |-> "noise", name |-> <<>>, toks |-> <<>>]
\* a line no pattern matches, or a vector/scalar match whose name holds "Solving for"
OtherLine == [kind |-> "other", name |-> <<>>, toks |-> <<>>]

TimeCol == <<"Time">>
SolverCol(var) == var \o <<"_initial_residual">>
ComponentCol(name, axis) == name \o <<"_", axis>>

\* the code points of the pieces that the modelled names are made of
Codes(piece) ==
    CASE piece = "C" -> <<67>>
      [] piece = "Time" -> <<84, 105, 109, 101>>
      [] piece = "_" -> <<95>>
      [] piece = "_initial_residual" ->
            <<95, 105, 110, 105, 116, 105, 97, 108, 95, 114, 101, 115, 105, 100, 117, 97, 108>>
      [] piece = "a" -> <<97>>
      [] piece = "d" -> <<100>>
      [] piece = "f" -> <<102>>
      [] piece = "o" -> <<111>>
      [] piece = "p" -> <<112>>
      [] piece = "x" -> <<120>>
      [] piece = "y" -> <<121>>
      [] piece = "z" -> <<122>>
      [] piece = " " -> <<32>>
      [] piece = "(" -> <<40>>
      [] piece = ")" -> <<41>>
      [] piece = "," -> <<44>>

CodePoints(name) == Flatten([i \in 1..Len(name) |-> Codes(name[i])])

\* the order of Python's str: by code point, a proper prefix first
RECURSIVE CodesLess(_, _)
CodesLess(a, b) ==
    IF b = <<>> THEN FALSE
    ELSE IF a = <<>> THEN TRUE
    ELSE IF Head(a) # Head(b) THEN Head(a) < Head(b)
    ELSE CodesLess(Tail(a), Tail(b))

StrLess(a, b) == CodesLess(CodePoints(a), CodePoints(b))

\* sorted(names) for names that differ from one another
RECURSIVE SortedSet(_)
SortedSet(S) ==
    IF S = {} THEN <<>>
    ELSE LET m == CHOOSE x \in S : \A y \in S \ {x} : StrLess(x, y)
         IN <<m>> \o SortedSet(S \ {m})

sorted(names) == SortedSet(Range(names))

\* 'initial_residual' in c
IsResidual(name) == Contains(name, "_initial_residual")

-----------------------------------------------------------------------------
(* Python dicts as sequences of <<key, value>> pairs, in insertion order. *)

Keys(rec) == [i \in 1..Len(rec) |-> rec[i][1]]

HasKey(rec, k) == \E i \in 1..Len(rec) : rec[i][1] = k

Get(rec, k) == rec[CHOOSE i \in 1..Len(rec) : rec[i][1] = k][2]

\* rec[k] = v
DictSet(rec, k, v) ==
    IF HasKey(rec, k)
    THEN [i \in 1..Len(rec) |-> IF rec[i][1] = k THEN <<k, v>> ELSE rec[i]]
    ELSE Append(rec, <<k, v>>)

-----------------------------------------------------------------------------
(* Line Classifier / Record Builder: LogfileParser.parse_lines. *)

\* monitored_set = set(monitored_columns) if monitored_columns else None
MonitoredSet(m) ==
    IF m.fixed /\ m.cols # <<>>
    THEN [all |-> FALSE, cols |-> Range(m.cols)]
    ELSE [all |-> TRUE, cols |-> {}]

\* monitored_set is None or col in monitored_set
Allowed(mset, col) == mset.all \/ col \in mset.cols

\* the vector branch: every token is converted before any field is stored
VectorFields(cur, name, toks, mset) ==
    IF (\E i \in 1..Len(toks) : toks[i] = Malformed) \/ toks = <<>>
    THEN cur
    ELSE LET x == IF Allowed(mset, ComponentCol(name, "x"))
                  THEN DictSet(cur, ComponentCol(name, "x"), toks[1]) ELSE cur
             y == IF Len(toks) > 1 /\ Allowed(mset, ComponentCol(name, "y"))
                  THEN DictSet(x, ComponentCol(name, "y"), toks[2]) ELSE x
         IN IF Len(toks) > 2 /\ Allowed(mset, ComponentCol(name, "z"))
            THEN DictSet(y, ComponentCol(name, "z"), toks[3]) ELSE y

\* the scalar branch: a malformed value is caught and the field skipped
ScalarField(cur, name, tok, mset) ==
    IF Allowed(mset, name) /\ tok # Malformed THEN DictSet(cur, name, tok) ELSE cur

\* whether float(i_res) of a solver line is reached and raises
SolverRaises(line, mset) ==
    Allowed(mset, SolverCol(line.name)) /\ line.toks[1] = Malformed

SolverField(cur, line, mset) ==
    IF Allowed(mset, SolverCol(line.name))
    THEN DictSet(cur, SolverCol(line.name), line.toks[1]) ELSE cur

\* the loop of parse_lines from line i on; raised = a ValueError left the function
RECURSIVE ParseFrom(_, _, _, _, _)
ParseFrom(lines, i, records, cur, mset) ==
    IF i > Len(lines)
    THEN [raised |-> FALSE,
          records |-> IF cur # <<>> THEN Append(records, cur) ELSE records]
    ELSE LET line == lines[i]
         IN CASE line.kind = "time" ->
                   IF line.toks[1] = Malformed
                   THEN [raised |-> TRUE, records |-> <<>>]
                   ELSE ParseFrom(lines, i + 1,
                                  IF cur # <<>> THEN Append(records, cur) ELSE records,
                                  <<<<TimeCol, line.toks[1]>>>>, mset)
              [] line.kind # "time" /\ cur = <<>> ->
                   ParseFrom(lines, i + 1, records, cur, mset)
              [] line.kind = "solver" /\ cur # <<>> ->
                   IF SolverRaises(line, mset)
                   THEN [raised |-> TRUE, records |-> <<>>]
                   ELSE ParseFrom(lines, i + 1, records, SolverField(cur, line, mset), mset)
              [] line.kind = "vector" /\ cur # <<>> ->
                   ParseFrom(lines, i + 1, records,
                             VectorFields(cur, _clean_column_name(line.name), line.toks, mset),
                             mset)
              [] line.kind = "scalar" /\ cur # <<>> ->
                   ParseFrom(lines, i + 1, records,
                             ScalarField(cur, _clean_column_name(line.name), line.toks[1], mset),
                             mset)
              [] OTHER -> ParseFrom(lines, i + 1, records, cur, mset)

parse_lines(lines, m) == ParseFrom(lines, 1, <<>>, <<>>, MonitoredSet(m))

-----------------------------------------------------------------------------
(* DataFrames. *)

NoDf == [columns |-> <<>>, rows |-> <<>>]

RowOf(rec) == [c \in Range(Keys(rec)) |-> Get(rec, c)]

\* pd.DataFrame.from_records(records): columns in order of first appearance
from_records(records) ==
    [columns |-> UnionSeq(<<>>, Flatten([i \in 1..Len(records) |-> Keys(records[i])])),
     rows |-> [i \in 1..Len(records) |-> RowOf(records[i])]]

\* astype(float32): the nearest representable value, ties to the even one
Round32(v) ==
    LET lo == (v \div F32Step) * F32Step
        hi == lo + F32Step
    IN IF v = lo THEN v
       ELSE IF 2 * (v - lo) < F32Step THEN lo
       ELSE IF 2 * (v - lo) > F32Step THEN hi
       ELSE IF (lo \div F32Step) % 2 = 0 THEN lo ELSE hi

\* _downcast_dataframe: every float64 column becomes float32 (the modelled values
\* are in the range where pandas accepts the rounding error)
_downcast_dataframe(df) ==
    [columns |-> df.columns,
     rows |-> [i \in 1..Len(df.rows) |->
                 [c \in DOMAIN df.rows[i] |-> Round32(df.rows[i][c])]]]

\* df.ffill(): a NaN cell takes the value of the nearest row above that has one
ffill(df) ==
    [columns |-> df.columns,
     rows |-> [i \in 1..Len(df.rows) |->
        [c \in {d \in Range(df.columns) : \E j \in 1..i : d \in DOMAIN df.rows[j]} |->
            LET j == CHOOSE k \in 1..i :
                        /\ c \in DOMAIN df.rows[k]
                        /\ \A l \in (k+1)..i : c \notin DOMAIN df.rows[l]
            IN df.rows[j][c]]]]

TimesOf(rows) == {rows[i][TimeCol] : i \in 1..Len(rows)}

\* df.sort_values(by='Time').drop_duplicates(subset='Time', keep='last').
\* sort_values sorts with kind='quicksort', which is not stable: rows of equal Time
\* end up in an order the build decides, so "the last" of them is any of them.
\* The result is the set of tables the call can return.
sort_drop_duplicates(df) ==
    LET times == Ascending(TimesOf(df.rows))
        n == Len(df.rows)
        picks == {f \in [1..Len(times) -> 1..n] :
                     \A k \in 1..Len(times) : df.rows[f[k]][TimeCol] = times[k]}
    IN {[columns |-> df.columns,
         rows |-> [k \in 1..Len(times) |-> df.rows[f[k]]]] : f \in picks}

\* pd.concat([a, b], ignore_index=True); a None operand is dropped
concat(a, b) ==
    IF a = NoDf THEN b
    ELSE [columns |-> UnionSeq(a.columns, b.columns), rows |-> a.rows \o b.rows]

\* df[['Time'] + [col for col in monitored_columns if col in df.columns]]
select_monitored(df, cols) ==
    LET keep == <<TimeCol>> \o SelectSeq(cols, LAMBDA c : Contains(df.columns, c))
    IN [columns |-> keep,
        rows |-> [i \in 1..Len(df.rows) |->
                    [c \in DOMAIN df.rows[i] \cap Range(keep) |-> df.rows[i][c]]]]

-----------------------------------------------------------------------------
(* The state of a tab and of its log file. *)

None == [fixed |-> FALSE, cols |-> <<>>]
Fixed(cols) == [fixed |-> TRUE, cols |-> cols]

NoMerge == [newcols |-> {}, oldtimes |-> {}]

\* tab_data as create_plot_tab builds it
NewTab == [df |-> NoDf, offset |-> 0, mon |-> None, temp |-> "None", csv |-> NoDf,
           merged |-> NoMerge]

Tab == [df |-> logfile_df, offset |-> parsed_byte_offset, mon |-> monitored_columns,
        temp |-> temp_file_path, csv |-> csv, merged |-> merged]

SetTab(t) ==
    /\ logfile_df' = t.df
    /\ parsed_byte_offset' = t.offset
    /\ monitored_columns' = t.mon
    /\ temp_file_path' = t.temp
    /\ csv' = t.csv
    /\ merged' = t.merged

Returned(op, ret, read) == last' = [op |-> op, ret |-> ret, read |-> read]

\* the columns the modelled solver prints: a residual and a function object
PVar == <<"p">>
QRaw == <<"C", "(", "d", ")">>
PCol == SolverCol(PVar)
QCol == _clean_column_name(QRaw)

\* the k-th line of the log carries the value k * F32Step: every printed field value
\* is distinct and float32-exact, so a cell shows which line it came from
NextValue == (Len(file) + 1) * F32Step

\* well-formed lines the solver can write next: a boundary line, or within a time
\* block the residual of p and then the function object, each at most once
LastLineIs(kinds) == file # <<>> /\ file[Len(file)].kind \in kinds

LogLines ==
    {TimeLine(t) : t \in 0..MaxTime}
        \cup (IF LastLineIs({"time"}) THEN {SolverLine(PVar, NextValue)} ELSE {})
        \cup (IF LastLineIs({"time", "solver"}) THEN {ScalarLine(QRaw, NextValue)} ELSE {})

\* lines with a malformed numeric token, beside a well-formed boundary line
BadLines ==
    {TimeLine(0), TimeLine(Malformed), SolverLine(PVar, Malformed),
     ScalarLine(QRaw, Malformed), VectorLine(QRaw, <<NextValue, Malformed>>)}

\* monitored_columns lists a session file can hold
SessionLists == {<<PCol, QCol>>}

Init ==
    /\ file = <<>>
    /\ exists = TRUE
    /\ logfile_df = NoDf
    /\ parsed_byte_offset = 0
    /\ monitored_columns = None
    /\ temp_file_path = "None"
    /\ csv = NoDf
    /\ merged = NoMerge
    /\ last = [op |-> "init", ret |-> TRUE, read |-> FALSE]
    /\ raw_name = <<>>
    /\ clean_name = <<>>
    /\ path = 1
    /\ other_file = <<>>
    /\ other_exists = TRUE
    /\ stop_tailing = FALSE
    /\ tail_thread = 0
    /\ workers = <<>>
    /\ enqueued = {}
    /\ logfile_monitor_job = "None"
    /\ job_pending = FALSE
    /\ last_mtime = 0
    /\ stale_time = 0
    /\ quiet = 0
    /\ gate_out = "none"
    /\ log_queue = <<>>
    /\ log_text = <<>>
    /\ tab_open = TRUE
    /\ auto_replotting = FALSE
    /\ active_auto_replot_job = "None"
    /\ replot_timers = 0
    /\ replot_out = [did |-> "none", mode |-> "Normal", by |-> "none"]

-----------------------------------------------------------------------------
(* The environment: the solver appends lines, the user deletes the log. *)

Write(lines) ==
    /\ exists
    /\ Len(file) < MaxFileLen
    /\ \E l \in lines : file' = Append(file, l)
    /\ Returned("write", TRUE, FALSE)
    /\ UNCHANGED <<exists, tabVars, normVars, liveVars>>

SolverWrites == Write(LogLines)

SolverWritesBad == Write(BadLines)

DeleteLog ==
    /\ exists
    /\ exists' = FALSE
    /\ Returned("delete", TRUE, FALSE)
    /\ UNCHANGED <<file, tabVars, normVars, liveVars>>

-----------------------------------------------------------------------------
(* Full-File Parser: LogfileParser.parse and GnuplotApp._execute_full_parse. *)

\* LogfileParser.parse: the set of DataFrames it can return; {} when it returns an
\* error (unreadable file, ValueError in parse_lines, no records)
parse ==
    IF ~exists THEN {}
    ELSE LET p == parse_lines(file, None)
         IN IF p.raised \/ p.records = <<>> THEN {}
            ELSE sort_drop_duplicates(ffill(from_records(p.records)))

\* ColumnSelectorDialog.result: None (cancelled) or the selected names in the order
\* of the list, which shows sorted(all_columns)
DialogResults(all_columns) ==
    {None} \cup {Fixed(SelectSeq(sorted(all_columns), LAMBDA c : c \in S)) :
                    S \in SUBSET Range(all_columns)}

\* the same with the Table stored and the cursor left where it was
FullParsedTableOnly(df, mon) ==
    LET kept == select_monitored(df, mon.cols)
    IN [df |-> kept, offset |-> parsed_byte_offset, mon |-> mon, temp |-> "tmp",
        csv |-> kept, merged |-> NoMerge]

\* lines 913-923: the tab after a successful full parse with the selection mon
FullParsed(df, mon) ==
    LET kept == select_monitored(df, mon.cols)
    IN [df |-> kept, offset |-> Len(file), mon |-> mon, temp |-> "tmp", csv |-> kept,
        merged |-> NoMerge]

\* _execute_full_parse on the tab t; op names the caller
_execute_full_parse(t, op) ==
    IF parse = {}
    THEN SetTab(t) /\ Returned(op, FALSE, exists)
    ELSE \E parsed \in parse :
            LET df == _downcast_dataframe(parsed)
                all_columns == SelectSeq(df.columns, LAMBDA c : c # TimeCol)
            IN IF t.mon = None
               THEN \E result \in DialogResults(all_columns) :
                       IF result = None
                       THEN SetTab(t) /\ Returned(op, FALSE, TRUE)
                       ELSE SetTab(FullParsed(df, result)) /\ Returned(op, TRUE, TRUE)
               ELSE SetTab(FullParsed(df, t.mon)) /\ Returned(op, TRUE, TRUE)

TimeBlocks == Len(SelectSeq(file, LAMBDA l : l.kind = "time"))

\* _parse_logfile once the file holds three time blocks (at once, or when the
\* check of _wait_for_logfile_data finds them)
\* as the parsing pipeline sees it: the tail worker it starts only feeds the
\* display queue and is followed in PressParseLogfile
ParseLogfile ==
    /\ exists
    /\ TimeBlocks >= MinTimeBlocks
    /\ _execute_full_parse(Tab, "full")
    /\ UNCHANGED <<file, exists, normVars, liveVars>>

\* a vector line of the function object holds 1 to 4 tokens; the j-th is well-formed
\* (a value that names its line and its place) or malformed
VecValue(j) == (4 * (Len(file) + 1) + j) * F32Step

VectorToks ==
    UNION {{[j \in 1..n |-> IF j \in bad THEN Malformed ELSE VecValue(j)] :
                bad \in SUBSET (1..n)} : n \in 1..4}

\* a log of three boundary lines followed by vector lines
VectorLines ==
    IF TimeBlocks < MinTimeBlocks
    THEN {TimeLine(TimeBlocks)}
    ELSE {VectorLine(QRaw, toks) : toks \in VectorToks}

SolverWritesVector == Write(VectorLines)

\* the tab_data of the workers' tab is dropped while its Event holds flag
SessionEnds(ws, flag) ==
    [w \in 1..Len(ws) |-> IF ws[w].ended THEN ws[w]
                          ELSE [ws[w] EXCEPT !.ended = TRUE, !.oldflag = flag]]

\* load_session: self.tabs.clear() and tab_counter = 0, then the tab is rebuilt under
\* the same key with a new Event, an empty log view and the session's
\* monitored_columns, and the log is parsed silently.  No tail is stopped and no
\* timer is cancelled.
LoadSession ==
    /\ \E l \in SessionLists :
          _execute_full_parse([NewTab EXCEPT !.mon = Fixed(l)], "load")
    /\ workers' = SessionEnds(workers, stop_tailing)
    /\ stop_tailing' = FALSE
    /\ tail_thread' = 0
    /\ logfile_monitor_job' = "None"
    /\ log_text' = <<>>
    /\ tab_open' = TRUE
    /\ UNCHANGED <<file, exists, normVars, replotVars, pathVars, enqueued, log_queue, job_pending,
                   last_mtime, stale_time, quiet, gate_out>>

-----------------------------------------------------------------------------
(* Incremental Parser: GnuplotApp._execute_incremental_parse. *)

\* the guard as it would read with `not monitored_columns`, which an empty list
\* satisfies as well
NoProgressEmptyList(path_exists, mon) == ~path_exists \/ mon = None \/ mon.cols = <<>>

\* line 953: the call cannot make progress
NoProgress(path_exists, mon) == ~path_exists \/ mon = None

\* f.seek(parsed_byte_offset); f.readlines()
ReadNewLines(f, offset) == SubSeq(f, offset + 1, Len(f))

\* f.tell() after the read
Tell(f, offset) == IF offset > Len(f) THEN offset ELSE Len(f)

MergeInfo(old, new_df, combined) ==
    LET newcols == Range(combined.columns) \ Range(old.columns)
    IN [newcols |-> newcols,
        oldtimes |-> IF newcols = {} THEN {}
                     ELSE TimesOf(old.rows) \ TimesOf(new_df.rows)]

_execute_incremental_parse ==
    IF NoProgress(exists, monitored_columns)
    THEN Returned("incr", FALSE, FALSE) /\ UNCHANGED tabVars
    ELSE LET new_lines == ReadNewLines(file, parsed_byte_offset)
             new_offset == Tell(file, parsed_byte_offset)
             p == parse_lines(new_lines, monitored_columns)
         IN IF new_lines = <<>>
            THEN Returned("incr", TRUE, FALSE) /\ UNCHANGED tabVars
            ELSE IF p.raised
            THEN Returned("incr", FALSE, TRUE) /\ UNCHANGED tabVars
            ELSE IF p.records = <<>>
            THEN /\ parsed_byte_offset' = new_offset
                 /\ Returned("incr", TRUE, TRUE)
                 /\ UNCHANGED <<logfile_df, monitored_columns, temp_file_path, csv, merged>>
            ELSE LET new_df == _downcast_dataframe(from_records(p.records))
                 IN \E combined_df \in sort_drop_duplicates(ffill(concat(logfile_df, new_df))) :
                       /\ logfile_df' = combined_df
                       /\ parsed_byte_offset' = new_offset
                       /\ merged' = MergeInfo(logfile_df, new_df, combined_df)
                       /\ UNCHANGED <<monitored_columns, temp_file_path>>
                       \* open(temp_file_path, 'w') raises when the path is None
                       /\ IF temp_file_path = "None"
                          THEN csv' = csv /\ Returned("incr", FALSE, TRUE)
                          ELSE csv' = combined_df /\ Returned("incr", TRUE, TRUE)

\* refresh_and_plot, or a tick of auto_replot_loop in logfile mode
IncrementalParse ==
    /\ _execute_incremental_parse
    /\ UNCHANGED <<file, exists, normVars, liveVars>>

-----------------------------------------------------------------------------
(* Live Tail Reader: _start_log_tail, _stop_log_tail, _tail_worker.          *)
(* A worker is [pc, pos, start, path, stopreq, ended, oldflag]: pc is "start"  *)
(* (thread started), "loop" (at the test of the while loop), "sleep" or       *)
(* "done"; pos counts the lines before its file position and start those      *)
(* before the position f.seek(0, 2) gave it; path is the log it opened;       *)
(* stopreq records that _stop_log_tail was called while it was alive; ended   *)
(* that its tab was closed or replaced, its Event then holding oldflag.       *)
(* An item of log_queue is <<worker, log, line number>>; its key is the key   *)
(* of the one tab that is followed.                                           *)

FileOf(p) == IF p = path THEN file ELSE other_file

ExistsOf(p) == IF p = path THEN exists ELSE other_exists

\* Thread.is_alive()
Alive(w) == workers[w].pc # "done"

Running == {w \in 1..Len(workers) : Alive(w)}

\* lines 791-792: the stop flag once _stop_log_tail has looked at tail_thread
StopFlag == stop_tailing \/ (tail_thread # 0 /\ Alive(tail_thread))

\* the Event a worker tests: the one of the tab that started it; a tab that was
\* closed or replaced leaves its Event as it was
EventIsSet(w) == IF workers[w].ended THEN workers[w].oldflag ELSE stop_tailing

StopRequested(ws) ==
    [w \in 1..Len(ws) |-> IF ws[w].pc # "done" /\ ~ws[w].ended
                          THEN [ws[w] EXCEPT !.stopreq = TRUE] ELSE ws[w]]

\* _stop_log_tail: sets the flag if the last started thread is alive, cancels the
\* timer of the gate
_stop_log_tail ==
    /\ stop_tailing' = StopFlag
    /\ workers' = StopRequested(workers)
    /\ logfile_monitor_job' = "None"
    /\ job_pending' = FALSE
    /\ UNCHANGED <<tail_thread, enqueued>>

\* _start_log_tail: _stop_log_tail, then the flag is cleared and a thread is started
\* with the same Event.  A worker that tests the flag between set() and clear()
\* (seen) leaves its loop; the others never see the flag set.
_start_log_tail ==
    /\ Len(workers) < MaxWorkers
    /\ \E seen \in SUBSET {w \in Running : /\ workers[w].pc = "loop" /\ StopFlag
                                            /\ ~workers[w].ended} :
          workers' = Append([w \in 1..Len(workers) |->
                                IF w \in seen
                                THEN [workers[w] EXCEPT !.pc = "done", !.stopreq = TRUE]
                                ELSE StopRequested(workers)[w]],
                            [pc |-> "start", pos |-> 0, start |-> 0, path |-> path,
                             stopreq |-> FALSE, ended |-> FALSE, oldflag |-> FALSE])
    /\ stop_tailing' = FALSE
    /\ tail_thread' = Len(workers) + 1
    /\ logfile_monitor_job' = "None"
    /\ job_pending' = FALSE
    /\ UNCHANGED enqueued

WorkerMoves(w, pc, pos) ==
    /\ workers' = [workers EXCEPT ![w].pc = pc, ![w].pos = pos,
                                  ![w].start = IF workers[w].pc = "start" THEN pos ELSE @]
    /\ Returned("worker", TRUE, FALSE)
    /\ UNCHANGED <<file, exists, tabVars, normVars, replotVars, pathVars, gateVars,
                   stop_tailing, tail_thread, log_text, tab_open>>

\* open(filepath); f.seek(0, 2): a missing file raises, which ends the thread
WorkerOpen(w) ==
    /\ workers[w].pc = "start"
    /\ IF ExistsOf(workers[w].path)
       THEN WorkerMoves(w, "loop", Len(FileOf(workers[w].path)))
       ELSE WorkerMoves(w, "done", 0)
    /\ UNCHANGED <<enqueued, log_queue>>

\* one turn of the while loop: the flag is tested, then a line is read.  A deleted
\* log stays readable through the open handle and gives no more lines; a log that
\* became unreadable makes readline raise, which ends the thread.
WorkerLoop(w) ==
    /\ workers[w].pc = "loop"
    /\ IF EventIsSet(w)
       THEN WorkerMoves(w, "done", workers[w].pos) /\ UNCHANGED <<enqueued, log_queue>>
       ELSE \/ /\ workers[w].pos < Len(FileOf(workers[w].path))
               /\ enqueued' = enqueued \cup {<<w, workers[w].path, workers[w].pos + 1>>}
               /\ log_queue' = Append(log_queue, <<w, workers[w].path, workers[w].pos + 1>>)
               /\ WorkerMoves(w, "loop", workers[w].pos + 1)
            \/ /\ workers[w].pos >= Len(FileOf(workers[w].path))
               /\ WorkerMoves(w, "sleep", workers[w].pos)
               /\ UNCHANGED <<enqueued, log_queue>>
            \/ /\ ~ExistsOf(workers[w].path)
               /\ WorkerMoves(w, "done", workers[w].pos)
               /\ UNCHANGED <<enqueued, log_queue>>

\* time.sleep(0.1) returns
WorkerWake(w) ==
    /\ workers[w].pc = "sleep"
    /\ WorkerMoves(w, "loop", workers[w].pos)
    /\ UNCHANGED <<enqueued, log_queue>>

WorkerStep(w) == WorkerOpen(w) \/ WorkerLoop(w) \/ WorkerWake(w)

TailWorker == \E w \in 1..Len(workers) : WorkerStep(w)

\* _switch_mode to "Normal" (close_tab and _on_closing stop the tail the same way)
SwitchToNormal ==
    /\ tab_open
    /\ _stop_log_tail
    /\ Returned("stop", TRUE, FALSE)
    /\ UNCHANGED <<file, exists, tabVars, normVars, replotVars, pathVars, viewVars,
                   last_mtime, stale_time, quiet, gate_out>>

\* close_tab: _stop_log_tail, the temp file is removed and the tab, with its log
\* view, is deleted from self.tabs (another plot tab stays open)
CloseTab ==
    /\ tab_open
    /\ stop_tailing' = StopFlag
    /\ workers' = SessionEnds(StopRequested(workers), StopFlag)
    /\ logfile_monitor_job' = "None"
    /\ job_pending' = FALSE
    /\ tab_open' = FALSE
    /\ log_text' = <<>>
    /\ SetTab(NewTab)
    /\ Returned("close", TRUE, FALSE)
    /\ UNCHANGED <<file, exists, normVars, replotVars, pathVars, tail_thread, enqueued, log_queue,
                   last_mtime, stale_time, quiet, gate_out>>

\* a consumer that would count the lines it shows as parsed
ProcessLogQueueMovingCursor ==
    /\ log_queue # <<>>
    /\ log_text' = IF tab_open THEN log_text \o log_queue ELSE log_text
    /\ log_queue' = <<>>
    /\ parsed_byte_offset' = parsed_byte_offset + Len(log_queue)
    /\ Returned("show", TRUE, FALSE)
    /\ UNCHANGED <<file, exists, logfile_df, monitored_columns, temp_file_path, csv,
                   merged, normVars, replotVars, pathVars, tailVars, gateVars, tab_open>>

\* _process_log_queue: every item on the queue is taken in order; its line is
\* inserted at the end of the log view when its key is in self.tabs
ProcessLogQueue ==
    /\ log_queue # <<>>
    /\ log_text' = IF tab_open THEN log_text \o log_queue ELSE log_text
    /\ log_queue' = <<>>
    /\ Returned("show", TRUE, FALSE)
    /\ UNCHANGED <<file, exists, tabVars, normVars, replotVars, pathVars, tailVars, gateVars, tab_open>>

\* _browse_logfile: the other log is selected; nothing else of the tab changes.
\* The path is changed while no gate timer is pending.
BrowseLogfile ==
    /\ ~job_pending
    /\ path' = 3 - path
    /\ file' = other_file /\ other_file' = file
    /\ exists' = other_exists /\ other_exists' = exists
    /\ Returned("browse", TRUE, FALSE)
    /\ UNCHANGED <<tabVars, normVars, replotVars, tailVars, gateVars, viewVars>>

-----------------------------------------------------------------------------
(* Readiness Gate: _parse_logfile and _wait_for_logfile_data. *)

\* os.path.getmtime(filepath): every write appends a line to the log
Mtime == Len(file)

\* the test as it would read with the threshold one block lower
GateReadyAtTwo(blocks) == blocks >= MinTimeBlocks - 1

\* len(time_blocks) >= 3
GateReady(blocks) == blocks >= MinTimeBlocks

\* the result of a gate check that runs no parse
GateReturns(out, job, pending) ==
    /\ gate_out' = out
    /\ logfile_monitor_job' = job
    /\ job_pending' = pending
    /\ Returned("gate", out = "polling", FALSE)
    /\ UNCHANGED <<tabVars, tailVars>>

\* _execute_full_parse called without silent: a successful parse starts the tail;
\* pending tells whether the timer of the gate is pending during the call
FullParseAndTail(pending) ==
    /\ _execute_full_parse(Tab, "full")
    /\ IF last'.ret
       THEN _start_log_tail
       ELSE UNCHANGED <<tailVars, logfile_monitor_job>> /\ job_pending' = pending

\* _wait_for_logfile_data; first = (checks_done == 0).  The pending timer is
\* cancelled or has just fired, so no timer is pending while the check runs.
_wait_for_logfile_data(first) ==
    LET before == IF first THEN Mtime ELSE last_mtime
        stale0 == IF first THEN 0 ELSE stale_time
        same == Mtime = before
        stale1 == IF same THEN stale0 + PollSeconds ELSE 0
    IN IF ~exists
       THEN /\ GateReturns("notfound", logfile_monitor_job, FALSE)
            /\ UNCHANGED <<last_mtime, stale_time, quiet>>
       ELSE /\ last_mtime' = Mtime
            /\ stale_time' = stale1
            /\ quiet' = IF first \/ ~same THEN 0 ELSE quiet + PollSeconds
            /\ IF same /\ stale1 >= StallSeconds
               THEN GateReturns("stalled", logfile_monitor_job, FALSE)
               ELSE IF GateReady(TimeBlocks)
               THEN FullParseAndTail(FALSE) /\ gate_out' = "parsed"
               ELSE GateReturns("polling", "job", TRUE)

\* the 'Parse Logfile' button: _parse_logfile
PressParseLogfile ==
    /\ tab_open
    /\ exists
    /\ IF GateReady(TimeBlocks)
       THEN /\ FullParseAndTail(job_pending)
            /\ UNCHANGED <<last_mtime, stale_time, quiet, gate_out>>
       ELSE _wait_for_logfile_data(TRUE)
    /\ UNCHANGED <<file, exists, normVars, replotVars, pathVars, viewVars>>

\* the timer of the gate fires, PollSeconds after the check that set it
GateCheck ==
    /\ job_pending
    /\ _wait_for_logfile_data(FALSE)
    /\ UNCHANGED <<file, exists, normVars, replotVars, pathVars, viewVars>>

\* the solver appends a boundary line to the selected log
SolverWritesBlock ==
    /\ Len(file) < MaxLiveLen
    /\ Write({TimeLine(TimeBlocks % (MaxTime + 1))})

-----------------------------------------------------------------------------
(* Auto-replot: start_replot, stop_replot, auto_replot_loop. *)

\* widgets['mode']
Modes == {"Normal", "Plot Logfile"}

\* stop_replot as it would be without after_cancel
stop_replot_without_cancel(timers, job) ==
    /\ auto_replotting' = FALSE
    /\ replot_timers' = timers
    /\ active_auto_replot_job' = "None"

\* stop_replot, called while Tk holds timers auto-replot timers and
\* active_auto_replot_job is job: after_cancel of a timer that has fired does nothing
stop_replot(timers, job) ==
    /\ auto_replotting' = FALSE
    /\ replot_timers' = IF job = "pending" THEN timers - 1 ELSE timers
    /\ active_auto_replot_job' = "None"

\* lines 1623-1636: plot, then the next tick is scheduled, or the interval is not a
\* positive whole number and the loop is stopped
PlotAndSchedule(timers, job, m, by) ==
    \E valid \in BOOLEAN :
        IF valid
        THEN /\ replot_out' = [did |-> "plotted", mode |-> m, by |-> by]
             /\ replot_timers' = timers + 1
             /\ active_auto_replot_job' = "pending"
             /\ auto_replotting' = TRUE
        ELSE /\ replot_out' = [did |-> "invalid", mode |-> m, by |-> by]
             /\ stop_replot(timers, job)

\* the body of auto_replot_loop when auto_replotting is true
ReplotBody(timers, job, by) ==
    \E m \in Modes :
        IF m = "Plot Logfile"
        THEN /\ _execute_incremental_parse
             /\ IF last'.ret
                THEN PlotAndSchedule(timers, job, m, by)
                ELSE /\ replot_out' = [did |-> "stopped", mode |-> m, by |-> by]
                     /\ stop_replot(timers, job)
        ELSE /\ Returned("replot", TRUE, FALSE)
             /\ UNCHANGED tabVars
             /\ PlotAndSchedule(timers, job, m, by)

\* the 'Start' button: start_replot
StartReplot ==
    /\ tab_open
    /\ replot_timers < MaxTimers
    /\ ReplotBody(IF active_auto_replot_job = "pending" THEN replot_timers - 1
                  ELSE replot_timers, "None", "button")
    /\ UNCHANGED <<file, exists, normVars, pathVars, tailVars, gateVars, viewVars>>

\* the 'Stop' button: stop_replot
StopReplot ==
    /\ tab_open
    /\ stop_replot(replot_timers, active_auto_replot_job)
    /\ replot_out' = [did |-> "stop", mode |-> replot_out.mode, by |-> "button"]
    /\ Returned("stopreplot", TRUE, FALSE)
    /\ UNCHANGED <<file, exists, tabVars, normVars, pathVars, tailVars, gateVars, viewVars>>

\* an auto-replot timer fires: auto_replot_loop.  The timer that fired is the one
\* active_auto_replot_job names, unless Tk holds another one.
ReplotTick ==
    /\ tab_open
    /\ replot_timers > 0
    /\ \E job \in IF active_auto_replot_job # "pending" THEN {active_auto_replot_job}
                  ELSE IF replot_timers = 1 THEN {"fired"} ELSE {"fired", "pending"} :
          IF auto_replotting
          THEN ReplotBody(replot_timers - 1, job, "timer")
          ELSE /\ replot_out' = [did |-> "idle", mode |-> replot_out.mode, by |-> "timer"]
               /\ replot_timers' = replot_timers - 1
               /\ active_auto_replot_job' = job
               /\ Returned("replot", TRUE, FALSE)
               /\ UNCHANGED <<tabVars, auto_replotting>>
    /\ UNCHANGED <<file, exists, normVars, pathVars, tailVars, gateVars, viewVars>>

-----------------------------------------------------------------------------
(* The normalizer on its own: a label is typed piece by piece and cleaned. *)

Pieces == {<<"a">>, <<"o", "f">>, <<" ">>, <<"(">>, <<"_">>}

TypePiece ==
    /\ Len(raw_name) < MaxPieces
    /\ clean_name = <<>>
    /\ \E piece \in Pieces : raw_name' = Append(raw_name, piece)
    /\ UNCHANGED <<clean_name, file, exists, tabVars, last, liveVars>>

CleanName ==
    /\ clean_name = <<>>
    /\ clean_name' = <<_clean_column_name(Flatten(raw_name))>>
    /\ UNCHANGED <<raw_name, file, exists, tabVars, last, liveVars>>

\* the solver appends a boundary line, a boundary line with a malformed time, or a
\* residual of p
SolverWritesMixed ==
    Write({TimeLine(TimeBlocks % (MaxTime + 1)), TimeLine(Malformed),
           SolverLine(PVar, NextValue)})

-----------------------------------------------------------------------------
(* Specifications. *)

Next ==
    \/ SolverWrites
    \/ DeleteLog
    \/ ParseLogfile
    \/ LoadSession
    \/ IncrementalParse

Spec == Init /\ [][Next]_vars

\* the same tab reading a log that holds malformed numbers
NextBad ==
    \/ SolverWritesBad
    \/ DeleteLog
    \/ ParseLogfile
    \/ LoadSession
    \/ IncrementalParse

SpecBad == Init /\ [][NextBad]_vars

\* the tab and its readiness gate: the button, the timer of the gate and the solver
NextGate ==
    \/ SolverWritesBlock
    \/ DeleteLog
    \/ PressParseLogfile
    \/ GateCheck

SpecGate == Init /\ [][NextGate]_vars

\* the tab and its tail workers on one log: the button, the mode switch and the
\* worker threads, in the time before a timer of the gate fires
NextTail ==
    \/ SolverWritesBlock
    \/ DeleteLog
    \/ PressParseLogfile
    \/ SwitchToNormal
    \/ TailWorker

SpecTail == Init /\ [][NextTail]_vars

\* every started thread that can take a step is scheduled again and again
Scheduled(w) == IF w <= Len(workers) THEN WorkerStep(w) ELSE FALSE

TailFairness == \A w \in 1..MaxWorkers : WF_vars(Scheduled(w))

SpecTailFair == SpecTail /\ TailFairness

\* the same with the log path changing
NextLive ==
    \/ SolverWritesBlock
    \/ BrowseLogfile
    \/ PressParseLogfile
    \/ SwitchToNormal
    \/ TailWorker

SpecLive == Init /\ [][NextLive]_vars

\* the tab reading a log that holds vector lines
NextVec ==
    \/ SolverWritesVector
    \/ ParseLogfile
    \/ IncrementalParse

SpecVec == Init /\ [][NextVec]_vars

\* the button pressed again and again on a log that can hold a malformed time, with
\* the tail workers the successful parses start
NextParse ==
    \/ SolverWritesMixed
    \/ PressParseLogfile
    \/ TailWorker

SpecParse == Init /\ [][NextParse]_vars

\* monitoring sessions that end: the tab is closed or replaced by a loaded session
\* while its tail workers feed the queue of the log view
NextSession ==
    \/ SolverWritesBlock
    \/ PressParseLogfile
    \/ TailWorker
    \/ ProcessLogQueue
    \/ CloseTab
    \/ LoadSession

SpecSession == Init /\ [][NextSession]_vars

\* auto-replot of a tab in either mode, on a log that grows and can be deleted
NextReplot ==
    \/ SolverWritesBlock
    \/ DeleteLog
    \/ LoadSession
    \/ StartReplot
    \/ ReplotTick
    \/ StopReplot

SpecReplot == Init /\ [][NextReplot]_vars

\* the normalizer applied to every label of up to MaxPieces pieces
NextNorm ==
    \/ TypePiece
    \/ CleanName

SpecNorm == Init /\ [][NextNorm]_vars

-----------------------------------------------------------------------------
(* What the claims speak of. *)

Rows == logfile_df.rows
Columns == Range(logfile_df.columns)

\* the tab holds a Table and has consumed the whole log
UpToDate == logfile_df # NoDf /\ exists /\ parsed_byte_offset = Len(file)

TimeLines == {i \in 1..Len(file) : file[i].kind = "time" /\ file[i].toks[1] # Malformed}

\* the lines of the time block that the boundary line k opens
BlockOf(k) ==
    {i \in (k+1)..Len(file) : \A j \in (k+1)..i : file[j].kind # "time"}

\* the column a well-formed solver or scalar line feeds
ColumnOfLine(l) == IF l.kind = "solver" THEN SolverCol(l.name) ELSE _clean_column_name(l.name)

FieldLines(k) ==
    {i \in BlockOf(k) : file[i].kind \in {"solver", "scalar"} /\ file[i].toks[1] # Malformed}

\* the block of line k prints a value for column c
Carries(k, c) == \E i \in FieldLines(k) : ColumnOfLine(file[i]) = c

ValueIn(k, c) == file[CHOOSE i \in FieldLines(k) : ColumnOfLine(file[i]) = c].toks[1]

RowsAt(t) == {i \in 1..Len(Rows) : Rows[i][TimeCol] = t}

\* no two boundary lines of the log give the same Time after the downcast
NoRepeatedTime ==
    \A k1, k2 \in TimeLines :
        k1 # k2 => Round32(file[k1].toks[1]) # Round32(file[k2].toks[1])

\* a step of the incremental parser, and the records it reads
IncrStep == last'.op = "incr" /\ file' = file /\ exists' = exists

NewRecords ==
    parse_lines(ReadNewLines(file, parsed_byte_offset), monitored_columns).records

-----------------------------------------------------------------------------
(* Claims. *)

\* C1: after any sequence of full and incremental parses the rows of the Table are
\* in strictly ascending order of Time and no two rows share a Time.
C1_StrictlyAscendingTimes ==
    \A i \in 1..(Len(Rows) - 1) : Rows[i][TimeCol] < Rows[i+1][TimeCol]

\* C2: when a pass reached end-of-file inside a time block and later passes consumed
\* the rest of the block, the row of that Time holds every monitored field the block
\* prints (stated for logs in which no Time repeats, so no row supersedes another).
C2_CompletedBlockIsWhole ==
    (UpToDate /\ NoRepeatedTime) =>
        \A k \in TimeLines : \A c \in Range(monitored_columns.cols) :
            Carries(k, c) =>
                \E i \in RowsAt(Round32(file[k].toks[1])) : c \in DOMAIN Rows[i]

\* C3 (as claimed): an incremental parse called when the file has no bytes beyond
\* the cursor returns true and leaves Table, cursor and backing CSV unchanged.
C3_NoNewBytesReturnsTrue ==
    [][(IncrStep /\ (~exists \/ Len(file) <= parsed_byte_offset))
          => (last'.ret /\ UNCHANGED <<logfile_df, parsed_byte_offset, csv>>)]_vars

\* C3 (amended): when the log file exists and the MonitoredColumnSet is fixed, an
\* incremental parse with no bytes beyond the cursor returns true and leaves Table,
\* cursor and backing CSV unchanged; without them it returns false, and also
\* leaves them unchanged.
C3_NoNewBytesIsNoOp ==
    [][(IncrStep /\ (~exists \/ Len(file) <= parsed_byte_offset))
          => /\ UNCHANGED <<logfile_df, parsed_byte_offset, csv>>
             /\ last'.ret = (exists /\ monitored_columns.fixed)]_vars

\* C3 witness: a call with nothing to read returned true on a tab that holds a Table
C3_Witness ==
    /\ last.op = "incr" /\ last.ret /\ ~last.read
    /\ logfile_df # NoDf /\ Len(Rows) > 1
    /\ parsed_byte_offset = Len(file)

\* C4: normalizing a normalized name returns it unchanged.
C4_NormalizeIdempotent ==
    clean_name # <<>> => _clean_column_name(clean_name[1]) = clean_name[1]

\* C5: once the MonitoredColumnSet is fixed to S, every column of the Table is Time
\* or a member of S.
C5_OnlyMonitoredColumns ==
    (monitored_columns.fixed /\ logfile_df # NoDf) =>
        \A c \in Columns : c = TimeCol \/ c \in Range(monitored_columns.cols)

\* C6: when two records have the same Time, the Table has exactly one row for that
\* Time; it holds the later record's own values, and a column the later record does
\* not carry is not taken from the earlier one (stated for a Time that no other
\* printed Time is rounded to).
C6_LaterRecordWins ==
    UpToDate =>
        \A k1, k2 \in TimeLines :
            (/\ k1 < k2
             /\ file[k1].toks[1] = file[k2].toks[1]
             /\ \A k \in TimeLines :
                   \/ file[k].toks[1] = file[k2].toks[1] /\ k <= k2
                   \/ Round32(file[k].toks[1]) # Round32(file[k2].toks[1]))
            => /\ Cardinality(RowsAt(Round32(file[k2].toks[1]))) = 1
               /\ \A i \in RowsAt(Round32(file[k2].toks[1])) : \A c \in Columns \ {TimeCol} :
                     /\ Carries(k2, c) =>
                           c \in DOMAIN Rows[i] /\ Rows[i][c] = Round32(ValueIn(k2, c))
                     /\ (~Carries(k2, c) /\ Carries(k1, c) /\ c \in DOMAIN Rows[i]) =>
                           Rows[i][c] # Round32(ValueIn(k1, c))


\* a step of the incremental parser that merges new records into the Table
MergeStep == IncrStep /\ exists /\ monitored_columns.fixed /\ NewRecords # <<>>

\* the printed values grow along the log, so the most recently produced value of a
\* column is the largest one the Table holds
LastKnown(c) ==
    LET known == {Rows[i][c] : i \in {j \in 1..Len(Rows) : c \in DOMAIN Rows[j]}}
    IN CHOOSE v \in known : \A w \in known : w <= v

RowsAfterAt(t) == {i \in 1..Len(logfile_df'.rows) : logfile_df'.rows[i][TimeCol] = t}

\* C7: when an incremental merge adds a record of a Time new to the Table that
\* introduces a column B and has no value for an existing column A, the new row gets
\* A's last known value, B stays absent in the rows that were in the Table before
\* the merge, and it stays absent in them after the next merge too.
C7_NewColumnMerge ==
    [][MergeStep =>
        /\ (/\ Len(NewRecords) = 1
            /\ RowsAt(Round32(Get(NewRecords[1], TimeCol))) = {}
            /\ \E b \in Range(Keys(NewRecords[1])) : b \notin Columns)
           => \A a \in Columns \ ({TimeCol} \cup Range(Keys(NewRecords[1]))) :
                 (\E i \in 1..Len(Rows) : a \in DOMAIN Rows[i]) =>
                    \A i \in RowsAfterAt(Round32(Get(NewRecords[1], TimeCol))) :
                        /\ a \in DOMAIN logfile_df'.rows[i]
                        /\ logfile_df'.rows[i][a] = LastKnown(a)
        /\ \A t \in merged'.oldtimes : \A b \in merged'.newcols :
              \A i \in RowsAfterAt(t) : b \notin DOMAIN logfile_df'.rows[i]
        /\ \A t \in merged.oldtimes : \A b \in merged.newcols :
              (\A r \in 1..Len(NewRecords) : Round32(Get(NewRecords[r], TimeCol)) # t)
                 => \A i \in RowsAfterAt(t) : b \notin DOMAIN logfile_df'.rows[i]
      ]_vars

\* the value of column c in row j is one that a block of that Time prints
OwnValue(j, c) ==
    \E k \in TimeLines :
        /\ Round32(file[k].toks[1]) = Rows[j][TimeCol]
        /\ Carries(k, c)
        /\ Rows[j][c] = Round32(ValueIn(k, c))

\* C8: in the Table in its stored order a column has no gap after its first value:
\* a row after one that holds the column holds it too, with its own parsed value or
\* the value of the row before it.
C8_NoGapAfterFirstValue ==
    \A j \in 2..Len(Rows) : \A c \in DOMAIN Rows[j-1] \ {TimeCol} :
        Rows[j-1][TimeCol] < Rows[j][TimeCol] =>
            /\ c \in DOMAIN Rows[j]
            /\ Rows[j][c] = Rows[j-1][c] \/ OwnValue(j, c)

\* C9: the cursor changes only in a full parse or in an incremental parse that
\* returns true, and an incremental parse never moves it back.
C9_CursorMovesOnlyOnSuccess ==
    [][parsed_byte_offset' # parsed_byte_offset =>
          \/ last'.op \in {"full", "load"}
          \/ /\ last'.op = "incr"
             /\ last'.ret
             /\ parsed_byte_offset' > parsed_byte_offset]_vars

\* C10: a malformed numeric token never aborts a pass: parse_lines does not raise,
\* the silent full parse of a log that holds a well-formed boundary line succeeds, and
\* an incremental parse that read lines and can write its CSV returns true.
C10_MalformedNeverAborts ==
    /\ ~parse_lines(file, None).raised
    /\ (last.op = "load" /\ exists /\ TimeLines # {}) => last.ret
    /\ (last.op = "incr" /\ last.read /\ temp_file_path # "None") => last.ret

\* the components of a vector line, in the order of its tokens
Axes == <<"x", "y", "z">>

LastRecord(lines) ==
    LET recs == parse_lines(lines, None).records IN recs[Len(recs)]

\* C11: a malformed token of a vector line makes only its own component be skipped:
\* each well-formed token among the first three of the line is stored as name_x,
\* name_y or name_z, whatever the other tokens and the tokens beyond the third hold.
C11_VectorComponentsIndependent ==
    (file # <<>> /\ file[Len(file)].kind = "vector") =>
        LET line == file[Len(file)]
            name == _clean_column_name(line.name)
        IN \A j \in 1..3 :
              (j <= Len(line.toks) /\ line.toks[j] # Malformed) =>
                  /\ HasKey(LastRecord(file), ComponentCol(name, Axes[j]))
                  /\ Get(LastRecord(file), ComponentCol(name, Axes[j])) = line.toks[j]

\* the w-th thread was started and a stop was requested while it was alive
StopWasRequested(w) == IF w <= Len(workers) THEN workers[w].stopreq ELSE FALSE

\* the w-th thread was started and its log is gone
LogIsGone(w) == IF w <= Len(workers) THEN ~ExistsOf(workers[w].path) ELSE FALSE

\* the w-th thread was started and has left its loop
HasExited(w) == IF w <= Len(workers) THEN workers[w].pc = "done" ELSE FALSE

\* C12: a tail worker for which a stop was requested while it was running leaves
\* its loop, also when a new worker is started right after the stop.
C12_StoppedWorkerExits ==
    \A w \in 1..MaxWorkers :
        [](StopWasRequested(w) => <>HasExited(w))

\* C18: a tail worker whose log was deleted or became unreadable leaves its loop.
C18_WorkerLeavesLoopAfterDelete ==
    \A w \in 1..MaxWorkers :
        [](LogIsGone(w) => <>HasExited(w))

\* C13: no line of a log is put on the queue by two tail workers of the tab.
C13_NoLineEnqueuedTwice ==
    \A e1, e2 \in enqueued : (e1[2] = e2[2] /\ e1[3] = e2[3]) => e1[1] = e2[1]

\* a tail worker is alive and has not been told to stop
TailActive == Running # {} /\ ~stop_tailing

\* C16: the timer of the gate is never pending while a tail worker of the tab runs.
C16_GateAndTailExclusive == ~(job_pending /\ TailActive)

\* a check of the gate on a log that exists: the first one, made by the button, or
\* one made when the timer fires
GateChecks == exists /\ (GateCheck \/ (PressParseLogfile /\ TimeBlocks < MinTimeBlocks))

\* the check runs no full parse and leaves the timer pending
KeepsPolling == job_pending' /\ UNCHANGED tabVars /\ last'.op # "full"

\* the check runs the full parse and leaves no timer pending
RunsFullParse == last'.op = "full" /\ last'.read /\ ~job_pending'

C15_StalledAfterTwentySeconds ==
    [][GateChecks =>
          /\ (gate_out' = "stalled") = (quiet' >= StallSeconds)
          /\ (GateCheck /\ Mtime # last_mtime) => stale_time' = 0]_vars

\* C17: _execute_incremental_parse returns true whenever the log file exists and the
\* MonitoredColumnSet is fixed; when the file is missing or the set is unset it
\* returns false and leaves Table and cursor as they were.
C17_IncrementalReturnValue ==
    [][IncrStep =>
          /\ (exists /\ monitored_columns.fixed) => last'.ret
          /\ (~exists \/ ~monitored_columns.fixed) =>
                (~last'.ret /\ UNCHANGED <<logfile_df, parsed_byte_offset>>)]_vars

\* the filter of the last full parse (line 913): a column is kept when the list
\* holds it
FullParseFilter == [all |-> FALSE, cols |-> Range(monitored_columns.cols)]

\* C19: once the MonitoredColumnSet is fixed, no full or incremental parse of the
\* tab changes it, and the set that an incremental pass which reads new lines hands
\* to the classifier equals the set that filtered the Table at the last full parse.
C19_MonitoredSetImmutable ==
    [][(monitored_columns.fixed /\ last'.op \in {"full", "incr"}) =>
          /\ monitored_columns' = monitored_columns
          /\ (last'.op = "incr" /\ last'.read /\ temp_file_path # "None") =>
                MonitoredSet(monitored_columns) = FullParseFilter]_vars

\* C20: a full parse that does not succeed returns false and leaves Table, cursor,
\* MonitoredColumnSet, backing CSV and tail workers as they were; a parse that cannot
\* read a record does not succeed; a full parse that succeeds stores a Table parsed
\* from the whole log, filtered by the MonitoredColumnSet, together with the cursor at
\* the end of the log and the CSV of that Table.
C20_FailedFullParseKeepsState ==
    [][last'.op = "full" =>
          /\ parse = {} => ~last'.ret
          /\ ~last'.ret =>
                UNCHANGED <<logfile_df, parsed_byte_offset, monitored_columns, csv,
                            temp_file_path, tailVars>>
          /\ last'.ret =>
                /\ parsed_byte_offset' = Len(file)
                /\ monitored_columns'.fixed
                /\ \E p \in parse :
                      logfile_df' = select_monitored(_downcast_dataframe(p),
                                                     monitored_columns'.cols)
                /\ csv' = logfile_df']_vars

\* C20 witness: a full parse failed on a tab that held a Table with a column of its
\* own, a cursor before the end of the log and a running tail worker
C20_Witness ==
    /\ last.op = "full" /\ ~last.ret /\ last.read
    /\ monitored_columns.fixed
    /\ PCol \in Columns
    /\ 0 < parsed_byte_offset /\ parsed_byte_offset < Len(file)
    /\ Running # {}

\* C21: Table, cursor and backing CSV exist together: while no full parse of the tab
\* has succeeded (no temp file) the Table is None and the cursor is 0, whatever
\* incremental parses were called, also on a tab whose MonitoredColumnSet came from a
\* session file.
C21_TableCursorCsvTogether ==
    temp_file_path = "None" => (logfile_df = NoDf /\ parsed_byte_offset = 0 /\ csv = NoDf)

\* the columns of a table in the order of the claim: Time, the residual columns in
\* lexicographic order, the remaining columns in lexicographic order
ResidualsFirst(columns) ==
    LET rest == SelectSeq(columns, LAMBDA c : c # TimeCol)
    IN <<TimeCol>> \o sorted(SelectSeq(rest, IsResidual))
                   \o sorted(SelectSeq(rest, LAMBDA c : ~IsResidual(c)))

\* C22: the table written to the backing CSV by a full or an incremental parse has
\* the column Time, then the residual columns in lexicographic order, then the
\* remaining columns in lexicographic order.
C22_CsvColumnOrder ==
    csv # NoDf => csv.columns = ResidualsFirst(csv.columns)

\* a step of the Live Tail Reader: of a tail worker or of the queue consumer
TailReaderStep == last'.op \in {"worker", "show"}

\* C23: no step of a tail worker or of the queue consumer changes the Table, the
\* cursor, the MonitoredColumnSet, the temp file or the backing CSV of the tab,
\* however it is interleaved with the parses.
C23_TailReaderLeavesParsedState ==
    [][TailReaderStep =>
          UNCHANGED <<logfile_df, parsed_byte_offset, monitored_columns,
                      temp_file_path, csv>>]_vars

\* C23 witness: the consumer has shown lines read by a worker of a tab that holds a
\* Table and a cursor
C23_Witness ==
    /\ last.op = "show"
    /\ log_text # <<>>
    /\ logfile_df # NoDf /\ parsed_byte_offset > 0 /\ temp_file_path # "None"

\* C24: a full parse of a log in which no line matches the time-boundary pattern
\* fails: the caller gets false and the tab has no Table and cursor 0; a full parse
\* called again after the log has grown a boundary line succeeds and stores a Table
\* (stated for the silent full parse of load_session, which asks for no selection).
C24_NoDataFailsRetrySucceeds ==
    [][(last'.op = "load" /\ exists) =>
          /\ TimeBlocks = 0 =>
                (parse = {} /\ ~last'.ret /\ logfile_df' = NoDf /\ parsed_byte_offset' = 0)
          /\ TimeBlocks > 0 => (last'.ret /\ logfile_df' # NoDf)]_vars

\* the lines of the log that match the time-boundary pattern, in file order
BoundaryLines == SelectSeq(file, LAMBDA l : l.kind = "time")

FirstBoundary == CHOOSE i \in 1..Len(file) :
                    file[i].kind = "time" /\ \A j \in 1..(i-1) : file[j].kind # "time"

\* C25: parse_lines returns exactly one record per line that matches the
\* time-boundary pattern, in input order, each with the Time of its line, the last
\* one without a boundary line after it; the lines before the first boundary line
\* add nothing.
C25_OneRecordPerBoundaryLine ==
    LET records == parse_lines(file, None).records
    IN /\ Len(records) = Len(BoundaryLines)
       /\ \A k \in 1..Len(records) :
             /\ HasKey(records[k], TimeCol)
             /\ Get(records[k], TimeCol) = BoundaryLines[k].toks[1]
       /\ TimeBlocks > 0 =>
             records = parse_lines(SubSeq(file, FirstBoundary, Len(file)), None).records

\* the lines in the log view that workers of the tab's own session read
OwnShown == SelectSeq(log_text, LAMBDA e : ~workers[e[1]].ended)

\* C26: every line a tail worker enqueues was appended after the worker seeked to
\* the end of its log; the log view of the tab shows the lines of a log in file
\* order, each once; and the consumer shows nothing while the key is not an open tab.
C26_LinesShownOnceInFileOrder ==
    [][/\ \A e \in enqueued' : e[3] > workers'[e[1]].start
       /\ \A i, j \in 1..Len(OwnShown') :
             (i < j /\ OwnShown'[i][2] = OwnShown'[j][2]) => OwnShown'[i][3] < OwnShown'[j][3]
       /\ (last'.op = "show" /\ ~tab_open) => log_text' = log_text]_vars

\* C27: the workers of a monitoring session that ended (its tab was closed or
\* replaced by load_session) are stopped, so the log view of a tab created afterwards
\* shows no line that a worker of an ended session read.
C27_NoLineOfEndedSessionShown ==
    \A i \in 1..Len(log_text) : ~workers[log_text[i][1]].ended

\* the Tables a single full parse of the lines, filtered to the list mon, can give
FullTablesOf(lines, mon) ==
    LET p == parse_lines(lines, None)
    IN IF p.raised \/ p.records = <<>> THEN {}
       ELSE {select_monitored(_downcast_dataframe(d), mon.cols) :
                d \in sort_drop_duplicates(ffill(from_records(p.records)))}

\* the same rows with the same cells, whatever the order of the columns
SameTable(a, b) == a.rows = b.rows /\ Range(a.columns) = Range(b.columns)

\* the Table is one that a single full parse of the lines consumed so far gives
EqualsFullParse ==
    \E t \in FullTablesOf(SubSeq(file, 1, parsed_byte_offset), monitored_columns) :
        SameTable(logfile_df, t)

\* C28: when the Table equals the one a single full parse of the consumed lines
\* gives and an incremental pass starts at a boundary line (the passes before it
\* ended at the end of a complete time block), the Table after the pass equals the
\* one a single full parse of the whole file, filtered to the same
\* MonitoredColumnSet, gives.
C28_IncrementalEqualsFullParse ==
    [][(/\ IncrStep /\ exists /\ monitored_columns.fixed /\ temp_file_path # "None"
        /\ parsed_byte_offset < Len(file)
        /\ file[parsed_byte_offset + 1].kind = "time"
        /\ EqualsFullParse)
       => \E t \in FullTablesOf(file, monitored_columns) : SameTable(logfile_df', t)]_vars

\* C29: an incremental parse that returns false leaves the Table and the cursor as
\* they were, and the backing CSV holds the Table; after one that returns true with
\* new records the backing CSV equals the Table.
C29_FalseLeavesTableAndCursor ==
    [][IncrStep =>
          /\ ~last'.ret =>
                (UNCHANGED <<logfile_df, parsed_byte_offset>> /\ csv' = logfile_df')
          /\ (last'.ret /\ last'.read /\ NewRecords # <<>>) => csv' = logfile_df']_vars

\* a run of auto_replot_loop with auto_replotting true
ReplotRuns ==
    /\ last'.op \in {"incr", "replot"}
    /\ replot_out'.did \in {"plotted", "invalid", "stopped"}

\* C30: at most one auto-replot timer is pending at any time; a run of
\* auto_replot_loop in logfile mode calls the incremental parse, and plots only
\* when it returned true; when it returned false the run does not plot, no timer
\* stays pending and auto_replotting is false.
C30_OneReplotTimerAndStopOnFalse ==
    [][/\ replot_timers' <= 1
       /\ ReplotRuns =>
             /\ (replot_out'.mode = "Plot Logfile") = (last'.op = "incr")
             /\ (last'.op = "incr" /\ last'.ret) => replot_out'.did # "stopped"
             /\ (last'.op = "incr" /\ ~last'.ret) =>
                   /\ replot_out'.did = "stopped"
                   /\ ~auto_replotting'
                   /\ replot_timers' = 0
                   /\ active_auto_replot_job' = "None"]_vars

\* C30 witness: the loop plotted in logfile mode, a timer fired and the tick stopped
\* the loop because the incremental parse of the deleted log returned false
C30_Witness ==
    /\ replot_out = [did |-> "stopped", mode |-> "Plot Logfile", by |-> "timer"]
    /\ last.op = "incr" /\ ~last.ret
    /\ ~exists /\ logfile_df # NoDf
    /\ ~auto_replotting /\ replot_timers = 0 /\ active_auto_replot_job = "None"

====
